---- MODULE Spec2Model ----
(***************************************************************************)
(* Trusted-setup ceremony coordinator of semaphore-gnark-11:               *)
(*   scripts/trusted_setup.py            the shared step functions         *)
(*   scripts/e2e_test.py                 the end-to-end coordinator run    *)
(*   scripts/initialize_trusted_setup.py the initialization script         *)
(* The Go binary (the cryptographic engine) and the object store are       *)
(* external to these scripts; their effect on the artifact store is        *)
(* modelled from the design document (Engine* operators).                  *)
(***************************************************************************)
EXTENDS Integers, Sequences, FiniteSets, TLC

\* ---------------------------------------------------------------- bounds
\* number of coordinator runs (a first run and its restarts)
MaxRuns == 2
\* number of direct calls of step functions in the operator specification
MaxCalls == 2
\* largest contribution count given to the initialization script
MaxCount == 2
\* largest beacon round tried (the smallest is -1)
MaxBeacon == 1
\* substitutions of a stored artifact by a third party, per history
MaxSubst == 1

\* ------------------------------------------------------ program constants
NUM_CONTRIBUTIONS == 3
PHASE1_BEACON_ROUND == 1000
PHASE2_BEACON_ROUND == 2000
ProbeLimit == 30

\* ---------------------------------------------------------------- naming
LocalNames == {"binary", "ptau", "r1cs", "phase1", "phase2", "evals", "final", "pk", "vk", "messages"}
\* files below BUILD_DIR and TRUSTED_SETUP_DIR of the end-to-end run
E2EWiped == {"ptau", "r1cs", "phase1", "phase2", "evals", "final", "messages"}
Cmds == {"p1i", "p2n", "p2u", "presigned", "p2c", "p2v", "key"}
MaxIdx == NUM_CONTRIBUTIONS
\* bucket object names: 0 is "phase2" (the coordinator base), i+1 is "phase2-i"
ObjBase == 0
Obj(i) == i + 1
Objs == 0..(MaxIdx + 1)
\* the key pair (pk, vk) as an artifact identifier, for the overwrite count
KeyObj == MaxIdx + 2
Absent == <<0, 0>>
EmptyBucket == [o \in Objs |-> Absent]

VARIABLES
    local,        \* local file -> content id (0: the file does not exist)
    bucket,       \* bucket object -> <<content id, id of the predecessor consumed>>
    calls,        \* engine command -> number of invocations so far
    overwrites,   \* artifact -> number of engine invocations that write it while it is present
    clock,        \* content ids handed out so far
    minioUp,      \* the storage service is up (docker compose up completed)
    script,       \* "e2e", "init", "api": which entry point is running
    pc,           \* position of the running main()
    run,          \* number of runs started (operator specification: calls made, plus one)
    exit,         \* exit status of the run: -1 while running
    minio_started,
    probes,       \* failed health probes of the running start_minio (its loop variable)
    urls,         \* list of <<index, url>>; a url is the index its grant is scoped to
    pos,          \* loop position in urls / contribution_hashes
    contribution_hashes, \* list of <<index, hash>>
    verified,     \* indices whose phase2_verify returned normally in this run
    failedAt,     \* indices whose phase2_verify raised in this run
    p2vLog,       \* indices phase2_verify was called with in this run, in order
    contribLog,   \* indices phase2_contribute was called for in this run, in order
    extractLog,   \* one record per call of extract_keys in this run
    msgs,         \* message files written: ordinal -> url (-1: no file)
    allOk,        \* every external call of this run succeeded so far
    last,         \* the last step: [op, outcome, ...]
    args,         \* command-line arguments of the initialization script
    subst,        \* substitutions made so far
    calls0,       \* calls at the start of the current run
    snap          \* files and bucket at the start of the current run

world == <<local, bucket, calls, overwrites, clock>>
runst == <<urls, pos, contribution_hashes, verified, failedAt, p2vLog, contribLog, extractLog>>
vars == <<local, bucket, calls, overwrites, clock, minioUp, script, pc, run, exit, minio_started,
          probes, urls, pos, contribution_hashes, verified, failedAt, p2vLog, contribLog,
          extractLog, msgs, allOk, last, args, subst, calls0, snap>>

W == [local |-> local, bucket |-> bucket, calls |-> calls, overwrites |-> overwrites, clock |-> clock]
SetWorld(w) ==
    /\ local' = w.local
    /\ bucket' = w.bucket
    /\ calls' = w.calls
    /\ overwrites' = w.overwrites
    /\ clock' = w.clock

Exists(w, f) == w.local[f] # 0
Has(w, o) == w.bucket[o][1] # 0
RCs == {0, 1}

\* ------------------------------------------------- the engine (Go binary)
\* Each operator takes the world and the exit status the environment allows
\* (0: the command may succeed) and returns [rc, w, out].
Bump(w, c) == [w EXCEPT !.calls[c] = @ + 1]
Over(w, o, present) == IF present THEN [w EXCEPT !.overwrites[o] = @ + 1] ELSE w

\* importPhase1(params) -> artifact
EngineP1i(w, rc) ==
    LET w1 == Bump(w, "p1i") IN
    IF rc = 0 /\ Exists(w, "ptau")
    THEN [rc |-> 0, out |-> 0,
          w |-> [w1 EXCEPT !.local["phase1"] = w.clock + 1, !.clock = @ + 1]]
    ELSE [rc |-> 1, out |-> 0, w |-> w1]

\* initPhase2(phase1Artifact, circuit, beaconRound) -> (artifact, evalData)
EngineP2n(w, circuitOk, rc) ==
    LET w1 == Bump(w, "p2n") IN
    IF rc = 0 /\ Exists(w, "phase1") /\ circuitOk
    THEN [rc |-> 0, out |-> 0,
          w |-> [w1 EXCEPT !.local["phase2"] = w.clock + 1,
                           !.local["evals"] = w.clock + 1, !.clock = @ + 1]]
    ELSE [rc |-> 1, out |-> 0, w |-> w1]

\* putObject of ./trusted-setup/phase2 under the base object name "phase2"
EngineP2u(w, rc) ==
    LET w1 == Over(Bump(w, "p2u"), ObjBase, Has(w, ObjBase)) IN
    IF rc = 0 /\ Exists(w, "phase2")
    THEN [rc |-> 0, out |-> 0,
          w |-> [w1 EXCEPT !.bucket[ObjBase] = <<w.local["phase2"], 0>>]]
    ELSE [rc |-> 1, out |-> 0, w |-> w1]

\* issue_grants(bucket, count) -> ordered list of (index, grant), indices 0..count-1,
\* printed one per line as "<index>: <url>"
EnginePresigned(w, count, rc) ==
    LET w1 == Bump(w, "presigned") IN
    IF rc = 0 /\ count >= 0
    THEN [rc |-> 0, out |-> [k \in 1..count |-> <<k - 1, k - 1>>], w |-> w1]
    ELSE [rc |-> 1, out |-> <<>>, w |-> w1]

\* contribute(priorArtifact) -> (artifact, contentHash): consumes object url
\* (the base for url 0, "phase2-(url-1)" otherwise), writes "phase2-url" and prints the
\* content hash; hashLine = FALSE: the output carries no "Contribution Hash:" line.
\* out is that line as its ":"-separated fields (<<>>: no such line); the hash of an
\* artifact is the id of its content
EngineP2c(w, url, rc, hashLine) ==
    LET w1 == Over(Bump(w, "p2c"), Obj(url), Has(w, Obj(url))) IN
    IF rc = 0 /\ Has(w, Obj(url) - 1)
    THEN [rc |-> 0, out |-> IF hashLine THEN <<"Contribution Hash", w.clock + 1>> ELSE <<>>,
          w |-> [w1 EXCEPT !.bucket[Obj(url)] = <<w.clock + 1, w.bucket[Obj(url) - 1][1]>>,
                           !.clock = @ + 1]]
    ELSE [rc |-> 1, out |-> <<>>, w |-> w1]

\* verifyLink(priorArtifact, artifact) -> bool
VerifyLink(w, index) ==
    /\ Has(w, Obj(index))
    /\ Has(w, Obj(index) - 1)
    /\ w.bucket[Obj(index)][2] = w.bucket[Obj(index) - 1][1]

EngineP2v(w, index, rc) ==
    LET w1 == Bump(w, "p2v") IN
    IF rc = 0 /\ VerifyLink(w, index)
    THEN [rc |-> 0, out |-> 0, w |-> w1]
    ELSE [rc |-> 1, out |-> 0, w |-> w1]

\* extractKeys(phase1Artifact, finalPhase2Artifact, evalData, circuit, beaconRound)
EngineKey(w, rc) ==
    LET w1 == Over(Bump(w, "key"), KeyObj, Exists(w, "pk")) IN
    IF rc = 0 /\ Exists(w, "phase1") /\ Exists(w, "final") /\ Exists(w, "evals")
    THEN [rc |-> 0, out |-> 0,
          w |-> [w1 EXCEPT !.local["pk"] = w.clock + 1, !.local["vk"] = w.clock + 1,
                           !.clock = @ + 1]]
    ELSE [rc |-> 1, out |-> 0, w |-> w1]

\* ------------------------------------------------ scripts/trusted_setup.py
\* Each step function takes the world and the environment's inputs and returns
\* [ok, err, w, ret]: ok = it returned normally, err = the exception raised.
Ret(w, v) == [ok |-> TRUE, err |-> "none", w |-> w, ret |-> v]
Raise(w, e) == [ok |-> FALSE, err |-> e, w |-> w, ret |-> 0]

\* run_cmd returns the result iff the exit status is 0, else raises RuntimeError
run_cmd(rc) == rc = 0

\* phase1_import without the check that the target exists
phase1_import_always(w, rc) ==
    LET e == EngineP1i(w, rc) IN
    IF run_cmd(e.rc) THEN Ret(e.w, 0) ELSE Raise(e.w, "RuntimeError")

phase1_import(w, rc) ==
    IF Exists(w, "phase1")
    THEN Ret(w, 0)
    ELSE LET e == EngineP1i(w, rc) IN
         IF run_cmd(e.rc) THEN Ret(e.w, 0) ELSE Raise(e.w, "RuntimeError")

\* phase2_init without the check of the beacon round
phase2_init_nobeacon(w, circuitOk, beacon_round, rc) ==
    IF Exists(w, "phase2")
    THEN Ret(w, 0)
    ELSE LET e == EngineP2n(w, circuitOk, rc) IN
         IF run_cmd(e.rc) THEN Ret(e.w, 0) ELSE Raise(e.w, "RuntimeError")

phase2_init(w, circuitOk, beacon_round, rc) ==
    IF Exists(w, "phase2")
    THEN Ret(w, 0)
    ELSE IF beacon_round <= 0
    THEN Raise(w, "ValueError")
    ELSE LET e == EngineP2n(w, circuitOk, rc) IN
         IF run_cmd(e.rc) THEN Ret(e.w, 0) ELSE Raise(e.w, "RuntimeError")

phase2_upload(w, rc) ==
    LET e == EngineP2u(w, rc) IN
    IF run_cmd(e.rc) THEN Ret(e.w, 0) ELSE Raise(e.w, "RuntimeError")

\* one (int(index_str), url) pair per non-empty line of the output, in the order
\* of the lines
generate_presigned_urls_reversed(w, count, rc) ==
    LET e == EnginePresigned(w, count, rc) IN
    IF run_cmd(e.rc)
    THEN Ret(e.w, [k \in 1..Len(e.out) |-> e.out[Len(e.out) + 1 - k]])
    ELSE Raise(e.w, "RuntimeError")
generate_presigned_urls(w, count, rc) ==
    LET e == EnginePresigned(w, count, rc) IN
    IF run_cmd(e.rc) THEN Ret(e.w, e.out) ELSE Raise(e.w, "RuntimeError")

\* lines 178-183: without a "Contribution Hash:" line the call raises
phase2_contribute_nohash(w, presigned_url, rc, hashLine) ==
    LET e == EngineP2c(w, presigned_url, rc, hashLine) IN
    IF ~run_cmd(e.rc) THEN Raise(e.w, "RuntimeError")
    ELSE IF e.out # <<>> THEN Ret(e.w, e.out[Len(e.out)])
    ELSE Ret(e.w, 0)
\* line 182, line.split(":")[-1]: the last field of the line
phase2_contribute_firstfield(w, presigned_url, rc, hashLine) ==
    LET e == EngineP2c(w, presigned_url, rc, hashLine) IN
    IF ~run_cmd(e.rc) THEN Raise(e.w, "RuntimeError")
    ELSE IF e.out # <<>> THEN Ret(e.w, e.out[1])
    ELSE Raise(e.w, "RuntimeError")
phase2_contribute(w, presigned_url, rc, hashLine) ==
    LET e == EngineP2c(w, presigned_url, rc, hashLine) IN
    IF ~run_cmd(e.rc) THEN Raise(e.w, "RuntimeError")
    ELSE IF e.out # <<>> THEN Ret(e.w, e.out[Len(e.out)])
    ELSE Raise(e.w, "RuntimeError")

phase2_verify(w, index, rc) ==
    LET e == EngineP2v(w, index, rc) IN
    IF run_cmd(e.rc) THEN Ret(e.w, 0) ELSE Raise(e.w, "RuntimeError")

\* the parameters of extract_keys, and the other names bound in the module
ExtractKeysParams == {"phase1_path", "phase2_path", "evals_path", "circuit_path", "env"}
ModuleNames == {"os", "subprocess", "urllib", "Path", "REPO_ROOT", "BINARY",
                "PTAU_BASE_URL", "MESSAGE_TEMPLATE"}

\* kw: the keyword arguments of the call (the four paths are passed by position).
\* A keyword that is no parameter is a TypeError at the call; a name read in the
\* body that is neither a parameter nor bound in the module is a NameError.
extract_keys(w, kw, rc) ==
    IF ~(DOMAIN kw \subseteq ExtractKeysParams)
    THEN Raise(w, "TypeError")
    ELSE IF "phase1_beacon_round" \notin (ExtractKeysParams \cup ModuleNames)
    THEN Raise(w, "NameError")
    ELSE IF kw["phase1_beacon_round"] <= 0 \/ kw["phase2_beacon_round"] <= 0
    THEN Raise(w, "ValueError")
    ELSE LET e == EngineKey(w, rc) IN
         IF run_cmd(e.rc) THEN Ret(e.w, 0) ELSE Raise(e.w, "RuntimeError")

\* msg<index+1>.txt for every (index, url)
generate_messages(list) ==
    [n \in 0..(MaxIdx + 2) |->
        IF \E k \in 1..Len(list) : list[k][1] + 1 = n
        THEN list[CHOOSE k \in 1..Len(list) : list[k][1] + 1 = n][2]
        ELSE -1]

\* go build writes the binary; download and the R1CS test write their files
build_binary(w, force, rc) ==
    IF Exists(w, "binary") /\ ~force
    THEN Ret(w, 0)
    ELSE IF ~run_cmd(rc) THEN Raise(w, "RuntimeError")
    ELSE LET w1 == [w EXCEPT !.local["binary"] = 1] IN
         IF ~Exists(w1, "binary") THEN Raise(w1, "RuntimeError") ELSE Ret(w1, 0)

download_ptau(w, rc) ==
    IF Exists(w, "ptau")
    THEN Ret(w, 0)
    ELSE IF rc = 0 THEN Ret([w EXCEPT !.local["ptau"] = 1], 0)
    ELSE Raise(w, "URLError")

generate_r1cs(w, rc) ==
    IF Exists(w, "r1cs")
    THEN Ret(w, 0)
    ELSE IF run_cmd(rc) THEN Ret([w EXCEPT !.local["r1cs"] = 1], 0)
    ELSE Raise(w, "RuntimeError")

\* ---------------------------------------------------- scripts/e2e_test.py
Total(c) == c["p1i"] + c["p2n"] + c["p2u"] + c["presigned"] + c["p2c"] + c["p2v"] + c["key"]
\* the record of a step: pre is the content id of the step's target before it (0: absent),
\* dep the content id of the stored object the step reads (0: absent or none), beacon the
\* --beacon-round value on the step's engine command line (0: the command has none),
\* wrote whether the step changed the bucket, status the exit status of the step's engine
\* command and hash whether its output has a "Contribution Hash:" line (contributions)
Step(op, r, arg, pre) ==
    [op |-> op, ok |-> r.ok, err |-> r.err, arg |-> arg, pre |-> pre, dep |-> 0,
     beacon |-> 0, wrote |-> (r.w.bucket # bucket), status |-> 0, hash |-> FALSE,
     engine |-> Total(r.w.calls) - Total(calls)]
NoStep ==
    [op |-> "none", ok |-> TRUE, err |-> "none", arg |-> 0, pre |-> 0, dep |-> 0,
     beacon |-> 0, wrote |-> FALSE, status |-> 0, hash |-> FALSE, engine |-> 0]

\* stop_minio: docker compose down
stop_minio(up) == FALSE

\* the except clause (return 1) and the finally clause of main
Except ==
    /\ pc' = "done"
    /\ exit' = 1
    /\ minioUp' = IF minio_started THEN stop_minio(minioUp) ELSE minioUp

\* curl -o final_phase2_path http://.../phase2-<final_index>: without --fail, curl
\* exits 0 on an HTTP error and stores the error body
curl(w, final_index, rc) ==
    IF ~run_cmd(rc) THEN Raise(w, "RuntimeError")
    ELSE IF Has(w, Obj(final_index))
    THEN Ret([w EXCEPT !.local["final"] = w.bucket[Obj(final_index)][1]], 0)
    ELSE Ret([w EXCEPT !.local["final"] = w.clock + 1, !.clock = @ + 1], 0)

E2EKw == [env |-> 1, phase1_beacon_round |-> PHASE1_BEACON_ROUND,
          phase2_beacon_round |-> PHASE2_BEACON_ROUND]

Proceed(next) == pc' = next /\ UNCHANGED <<exit, minioUp>>
\* an exception raised by a step that is swallowed instead of ending the run
Then_swallow(r, next) == Proceed(next)
Then(r, next) == IF r.ok THEN Proceed(next) ELSE Except
fixed == <<script, run, args, calls0, snap, msgs, subst>>

\* lines 117-128: credentials check (outside try: an uncaught RuntimeError ends the
\* process with status 1), rmtree and mkdir of build/ and trusted-setup/
E2E_Setup ==
    /\ script = "e2e" /\ pc = "start"
    /\ IF ~args.creds
       THEN /\ pc' = "done" /\ exit' = 1
            /\ UNCHANGED <<world, minio_started>>
       ELSE /\ local' = [f \in LocalNames |-> IF f \in E2EWiped THEN 0 ELSE local[f]]
            /\ minio_started' = FALSE
            /\ pc' = "build"
            /\ UNCHANGED <<bucket, calls, overwrites, clock, exit>>
    /\ last' = [NoStep EXCEPT !.op = "setup", !.ok = args.creds,
                             !.err = IF args.creds THEN "none" ELSE "RuntimeError"]
    /\ UNCHANGED <<minioUp, probes, runst, allOk, fixed>>

\* lines 132-134
E2E_Build ==
    /\ script = "e2e" /\ pc = "build"
    /\ \E rc \in RCs :
        LET r == build_binary(W, TRUE, rc) IN
        /\ SetWorld(r.w) /\ Then(r, "ptau")
        /\ last' = Step("build_binary", r, 0, local["binary"])
        /\ allOk' = (allOk /\ rc = 0)
    /\ UNCHANGED <<minio_started, probes, runst, fixed>>

E2E_Ptau ==
    /\ script = "e2e" /\ pc = "ptau"
    /\ \E rc \in RCs :
        LET r == download_ptau(W, rc) IN
        /\ SetWorld(r.w) /\ Then(r, "r1cs")
        /\ last' = Step("download_ptau", r, 0, local["ptau"])
        /\ allOk' = (allOk /\ rc = 0)
    /\ UNCHANGED <<minio_started, probes, runst, fixed>>

E2E_R1cs ==
    /\ script = "e2e" /\ pc = "r1cs"
    /\ \E rc \in RCs :
        LET r == generate_r1cs(W, rc) IN
        /\ SetWorld(r.w) /\ Then(r, "compose")
        /\ last' = Step("generate_r1cs", r, 0, local["r1cs"])
        /\ allOk' = (allOk /\ rc = 0)
    /\ UNCHANGED <<minio_started, probes, runst, fixed>>

\* start_minio, lines 77-81: docker compose up -d with check=True. The bucket is
\* durable: a service that was down comes up with the objects it had.
E2E_ComposeUp ==
    /\ script = "e2e" /\ pc = "compose"
    /\ \E rc \in RCs :
        /\ allOk' = (allOk /\ rc = 0)
        /\ IF rc # 0
           THEN Except /\ UNCHANGED <<bucket, probes>>
           ELSE /\ minioUp' = TRUE
                /\ bucket' = bucket
                /\ probes' = 0
                /\ pc' = "probe"
                /\ UNCHANGED exit
        /\ last' = [NoStep EXCEPT !.op = "compose_up", !.ok = run_cmd(rc),
                                 !.err = IF run_cmd(rc) THEN "none" ELSE "RuntimeError"]
    /\ UNCHANGED <<local, calls, overwrites, clock, minio_started, runst, fixed>>

\* start_minio, lines 86 and 93: the loop ends, and the error is raised, after n failed probes
ProbeTimedOut_offbyone(n) == n = ProbeLimit + 1
ProbeTimedOut(n) == n = ProbeLimit

\* start_minio, lines 86-93: one health probe (a failed one is caught and followed by a
\* sleep); then line 138. last.arg is the number of probes made so far.
E2E_Probe ==
    /\ script = "e2e" /\ pc = "probe"
    /\ \E up \in BOOLEAN :
        /\ allOk' = (allOk /\ up)
        /\ IF up
           THEN /\ minio_started' = TRUE
                /\ Proceed("p1")
                /\ probes' = 0
                /\ last' = [NoStep EXCEPT !.op = "probe", !.arg = probes + 1]
           ELSE /\ probes' = probes + 1
                /\ UNCHANGED minio_started
                /\ IF ProbeTimedOut(probes + 1)
                   THEN /\ Except
                        /\ last' = [NoStep EXCEPT !.op = "probe", !.arg = probes + 1,
                                                 !.ok = FALSE, !.err = "RuntimeError"]
                   ELSE /\ Proceed("probe")
                        /\ last' = [NoStep EXCEPT !.op = "probe", !.arg = probes + 1]
    /\ UNCHANGED <<world, runst, fixed>>

\* line 141
E2E_Phase1Import ==
    /\ script = "e2e" /\ pc = "p1"
    /\ \E rc \in RCs :
        LET r == phase1_import(W, rc) IN
        /\ SetWorld(r.w) /\ Then(r, "p2init")
        /\ last' = Step("phase1_import", r, 0, local["phase1"])
        /\ allOk' = (allOk /\ rc = 0)
    /\ UNCHANGED <<minio_started, probes, runst, fixed>>

\* lines 144-151: beacon_round = PHASE1_BEACON_ROUND
E2E_Phase2Init ==
    /\ script = "e2e" /\ pc = "p2init"
    /\ \E rc \in RCs :
        LET r == phase2_init(W, Exists(W, "r1cs"), PHASE1_BEACON_ROUND, rc) IN
        /\ SetWorld(r.w) /\ Then(r, "upload")
        /\ last' = [Step("phase2_init", r, PHASE1_BEACON_ROUND, local["phase2"])
                        EXCEPT !.beacon = PHASE1_BEACON_ROUND]
        /\ allOk' = (allOk /\ rc = 0)
    /\ UNCHANGED <<minio_started, probes, runst, fixed>>

\* line 154
E2E_Upload ==
    /\ script = "e2e" /\ pc = "upload"
    /\ \E rc \in RCs :
        LET r == phase2_upload(W, rc) IN
        /\ SetWorld(r.w) /\ Then(r, "presigned")
        /\ last' = Step("phase2_upload", r, 0, bucket[ObjBase][1])
        /\ allOk' = (allOk /\ rc = 0)
    /\ UNCHANGED <<minio_started, probes, runst, fixed>>

\* line 158
E2E_Presigned ==
    /\ script = "e2e" /\ pc = "presigned"
    /\ \E rc \in RCs :
        LET r == generate_presigned_urls(W, NUM_CONTRIBUTIONS, rc) IN
        /\ SetWorld(r.w)
        /\ Then(r, IF r.ok /\ Len(r.ret) = 0 THEN "curl" ELSE "contribute")
        /\ urls' = IF r.ok THEN r.ret ELSE urls
        /\ pos' = 1
        /\ last' = Step("generate_presigned_urls", r, NUM_CONTRIBUTIONS, 0)
        /\ allOk' = (allOk /\ rc = 0)
    /\ UNCHANGED <<minio_started, probes, contribution_hashes, verified, failedAt, p2vLog,
                   contribLog, extractLog, fixed>>

\* lines 164-169 and 227-231: where the run goes after one call of phase2_contribute
ContributeNext_retry(r, atEnd) ==
    IF r.ok THEN Proceed(IF atEnd THEN "verify" ELSE "contribute") ELSE Proceed("p2init")
ContributeNext(r, atEnd) == Then(r, IF atEnd THEN "verify" ELSE "contribute")

\* lines 164-169: one iteration of the contribution loop
E2E_Contribute ==
    /\ script = "e2e" /\ pc = "contribute" /\ pos <= Len(urls)
    /\ \E rc \in RCs, hashLine \in BOOLEAN :
        LET index == urls[pos][1]
            url == urls[pos][2]
            r == phase2_contribute(W, url, rc, hashLine) IN
        /\ SetWorld(r.w)
        /\ ContributeNext(r, pos = Len(urls))
        /\ contribution_hashes' = IF r.ok THEN Append(contribution_hashes, <<index, r.ret>>)
                                  ELSE contribution_hashes
        /\ pos' = IF r.ok /\ pos < Len(urls) THEN pos + 1 ELSE 1
        /\ contribLog' = Append(contribLog, index)
        /\ last' = [Step("phase2_contribute", r, index, bucket[Obj(url)][1])
                        EXCEPT !.dep = bucket[Obj(url) - 1][1],
                               !.status = EngineP2c(W, url, rc, hashLine).rc,
                               !.hash = (EngineP2c(W, url, rc, hashLine).out # <<>>)]
        /\ allOk' = (allOk /\ rc = 0 /\ hashLine)
    /\ UNCHANGED <<minio_started, probes, urls, verified, failedAt, p2vLog, extractLog, fixed>>

\* line 174, for index, _ in contribution_hashes: the index of the record at pos
WalkIndex_ordinal(records, p) == records[p][1] + 1
WalkIndex(records, p) == records[p][1]

\* lines 174-176: one iteration of the verification loop. last.pre is 1 when the
\* artifact is a valid transformation of its predecessor at the time of the call, last.dep
\* is the artifact's content at that time
E2E_Verify ==
    /\ script = "e2e" /\ pc = "verify" /\ pos <= Len(contribution_hashes)
    /\ \E rc \in RCs :
        LET index == WalkIndex(contribution_hashes, pos)
            r == phase2_verify(W, index, rc) IN
        /\ SetWorld(r.w)
        /\ Then(r, IF pos = Len(contribution_hashes) THEN "curl" ELSE "verify")
        /\ verified' = IF r.ok THEN verified \cup {index} ELSE verified
        /\ failedAt' = IF r.ok THEN failedAt ELSE failedAt \cup {index}
        /\ p2vLog' = Append(p2vLog, index)
        /\ pos' = IF r.ok THEN pos + 1 ELSE pos
        /\ last' = [Step("phase2_verify", r, index, IF VerifyLink(W, index) THEN 1 ELSE 0)
                        EXCEPT !.dep = bucket[Obj(index)][1]]
        /\ allOk' = (allOk /\ rc = 0)
    /\ UNCHANGED <<minio_started, probes, urls, contribution_hashes, contribLog, extractLog, fixed>>

\* lines 181-188: final_index = NUM_CONTRIBUTIONS - 1, download of phase2-<final_index>
E2E_Curl ==
    /\ script = "e2e" /\ pc = "curl"
    /\ \E rc \in RCs :
        LET r == curl(W, NUM_CONTRIBUTIONS - 1, rc) IN
        /\ SetWorld(r.w) /\ Then(r, "extract")
        /\ last' = Step("curl", r, NUM_CONTRIBUTIONS - 1, 0)
        /\ allOk' = (allOk /\ rc = 0)
    /\ UNCHANGED <<minio_started, probes, runst, fixed>>

\* lines 190-225: extract_keys, copy of pk and vk to build/, run_proof_test, return 0
E2E_Extract ==
    /\ script = "e2e" /\ pc = "extract"
    /\ \E rc \in RCs, rcTest \in RCs :
        LET r == extract_keys(W, E2EKw, rc) IN
        /\ SetWorld(r.w)
        /\ extractLog' = Append(extractLog,
               [index |-> NUM_CONTRIBUTIONS - 1, content |-> local["final"]])
        /\ last' = [Step("extract_keys", r, NUM_CONTRIBUTIONS - 1, local["pk"])
                        EXCEPT !.ok = r.ok /\ run_cmd(rcTest),
                               !.err = IF r.ok /\ ~run_cmd(rcTest) THEN "RuntimeError" ELSE r.err]
        /\ allOk' = (allOk /\ rc = 0 /\ rcTest = 0)
        /\ IF r.ok /\ run_cmd(rcTest)
           THEN /\ pc' = "done" /\ exit' = 0
                /\ minioUp' = IF minio_started THEN stop_minio(minioUp) ELSE minioUp
           ELSE Except
    /\ UNCHANGED <<minio_started, probes, urls, pos, contribution_hashes, verified, failedAt,
                   p2vLog, contribLog, fixed>>

\* the process is terminated from outside
Kill ==
    /\ pc \notin {"done", "killed"}
    /\ pc' = "killed"
    /\ allOk' = FALSE
    /\ last' = [NoStep EXCEPT !.op = "kill"]
    /\ UNCHANGED <<world, minioUp, exit, minio_started, probes, runst, fixed>>

\* the script is started again: memory is fresh, files and bucket are as they were left
Restart ==
    /\ pc \in {"done", "killed"} /\ run < MaxRuns
    /\ run' = run + 1
    /\ pc' = "start" /\ exit' = -1
    /\ minio_started' = FALSE /\ probes' = 0
    /\ urls' = <<>> /\ pos' = 1 /\ contribution_hashes' = <<>>
    /\ verified' = {} /\ failedAt' = {} /\ p2vLog' = <<>> /\ contribLog' = <<>>
    /\ extractLog' = <<>>
    /\ allOk' = TRUE
    /\ calls0' = calls
    /\ snap' = [local |-> local, bucket |-> bucket]
    /\ last' = [NoStep EXCEPT !.op = "restart"]
    /\ UNCHANGED <<world, minioUp, script, args, msgs, subst>>

\* a third party replaces a stored contribution: by unrelated data (valid = FALSE) or
\* by another transformation of the same predecessor (valid = TRUE); no step of the script
Substitute ==
    /\ subst < MaxSubst /\ pc \in {"contribute", "verify", "curl"}
    /\ \E i \in 0..(NUM_CONTRIBUTIONS - 1), valid \in BOOLEAN :
        /\ Has(W, Obj(i))
        /\ bucket' = [bucket EXCEPT ![Obj(i)] =
                         <<clock + 1, IF valid THEN bucket[Obj(i) - 1][1] ELSE 0>>]
    /\ clock' = clock + 1
    /\ subst' = subst + 1
    /\ allOk' = FALSE
    /\ UNCHANGED <<local, calls, overwrites, minioUp, script, pc, run, exit, minio_started,
                   probes, runst, msgs, args, calls0, snap, last>>

ZeroCalls == [c \in Cmds |-> 0]
NoFiles == [f \in LocalNames |-> 0]
NoWrites ==
    /\ bucket = EmptyBucket
    /\ calls = ZeroCalls
    /\ overwrites = [o \in Objs \cup {KeyObj} |-> 0]
    /\ clock = 1
InitCommon ==
    /\ calls0 = ZeroCalls
    /\ minioUp = FALSE /\ minio_started = FALSE /\ probes = 0
    /\ run = 1 /\ exit = -1
    /\ urls = <<>> /\ pos = 1 /\ contribution_hashes = <<>>
    /\ verified = {} /\ failedAt = {} /\ p2vLog = <<>> /\ contribLog = <<>>
    /\ extractLog = <<>>
    /\ msgs = [n \in 0..(MaxIdx + 2) |-> -1]
    /\ allOk = TRUE
    /\ last = NoStep
    /\ subst = 0

\* --------------------------------- scripts/initialize_trusted_setup.py
\* run_cmd(cmd, capture_output) of this script has no cwd parameter
InitRunCmdParams == {"cmd", "capture_output"}

\* build_binary: run_cmd(["go", "build"], cwd=REPO_ROOT)
init_build_binary(w, rc) ==
    IF Exists(w, "binary")
    THEN Ret(w, 0)
    ELSE IF ~({"cwd"} \subseteq InitRunCmdParams) THEN Raise(w, "TypeError")
    ELSE IF ~run_cmd(rc) THEN Raise(w, "RuntimeError")
    ELSE Ret([w EXCEPT !.local["binary"] = 1], 0)

run_phase1_import(w, rc) ==
    IF Exists(w, "phase1")
    THEN Ret(w, 0)
    ELSE LET e == EngineP1i(w, rc) IN
         IF run_cmd(e.rc) THEN Ret(e.w, 0) ELSE Raise(e.w, "RuntimeError")

\* lines 109-115: p2n is run without --beacon-round
InitP2nBeacon == 0
run_phase2_init(w, circuitOk, rc) ==
    IF Exists(w, "phase2")
    THEN Ret(w, 0)
    ELSE LET e == EngineP2n(w, circuitOk, rc) IN
         IF run_cmd(e.rc) THEN Ret(e.w, 0) ELSE Raise(e.w, "RuntimeError")

upload_phase2(w, rc) ==
    LET e == EngineP2u(w, rc) IN
    IF run_cmd(e.rc) THEN Ret(e.w, 0) ELSE Raise(e.w, "RuntimeError")

init_generate_presigned_urls(w, count, rc) ==
    LET e == EnginePresigned(w, count, rc) IN
    IF run_cmd(e.rc) THEN Ret(e.w, e.out) ELSE Raise(e.w, "RuntimeError")

\* msg<index>.txt for every (index, url) with index # 0
init_generate_messages(list) ==
    [n \in 0..(MaxIdx + 2) |->
        IF n # 0 /\ \E k \in 1..Len(list) : list[k][1] = n
        THEN list[CHOOSE k \in 1..Len(list) : list[k][1] = n][2]
        ELSE -1]

\* the except clause of main: return 1
InitExcept == pc' = "done" /\ exit' = 1 /\ UNCHANGED minioUp
InitThen_swallow(r, next) == Proceed(next)
InitThen(r, next) == IF r.ok THEN Proceed(next) ELSE InitExcept
fixedI == <<script, run, args, calls0, snap, subst, minio_started, probes>>

\* lines 192-198: the circuit file exists and the contribution count is at least 1
ConfigOk_nocount(a) == a.circuit
ConfigOk(a) == a.circuit /\ a.count >= 1

\* lines 190-210: argument checks (an error message and return 1), then the
\* directories are created
Init_Start ==
    /\ script = "init" /\ pc = "start"
    /\ IF ~ConfigOk(args)
       THEN /\ pc' = "done" /\ exit' = 1
            /\ UNCHANGED world
       ELSE /\ local' = [local EXCEPT !["messages"] = 1]
            /\ pc' = "build"
            /\ UNCHANGED <<bucket, calls, overwrites, clock, exit>>
    /\ last' = [NoStep EXCEPT !.op = "start", !.ok = ConfigOk(args),
                             !.err = IF ConfigOk(args) THEN "none" ELSE "config"]
    /\ UNCHANGED <<minioUp, runst, msgs, allOk, fixedI>>

\* line 213
Init_Build ==
    /\ script = "init" /\ pc = "build"
    /\ \E rc \in RCs :
        LET r == init_build_binary(W, rc) IN
        /\ SetWorld(r.w) /\ InitThen(r, "ptau")
        /\ last' = Step("build_binary", r, 0, local["binary"])
        /\ allOk' = (allOk /\ rc = 0)
    /\ UNCHANGED <<runst, msgs, fixedI>>

\* line 214
Init_Ptau ==
    /\ script = "init" /\ pc = "ptau"
    /\ \E rc \in RCs :
        LET r == download_ptau(W, rc) IN
        /\ SetWorld(r.w) /\ InitThen(r, "p1")
        /\ last' = Step("download_ptau", r, 0, local["ptau"])
        /\ allOk' = (allOk /\ rc = 0)
    /\ UNCHANGED <<runst, msgs, fixedI>>

\* line 215
Init_Phase1Import ==
    /\ script = "init" /\ pc = "p1"
    /\ \E rc \in RCs :
        LET r == run_phase1_import(W, rc) IN
        /\ SetWorld(r.w) /\ InitThen(r, "p2init")
        /\ last' = Step("run_phase1_import", r, 0, local["phase1"])
        /\ allOk' = (allOk /\ rc = 0)
    /\ UNCHANGED <<runst, msgs, fixedI>>

\* line 216
Init_Phase2Init ==
    /\ script = "init" /\ pc = "p2init"
    /\ \E rc \in RCs :
        LET r == run_phase2_init(W, args.circuit, rc) IN
        /\ SetWorld(r.w) /\ InitThen(r, "upload")
        /\ last' = [Step("run_phase2_init", r, 0, local["phase2"])
                        EXCEPT !.beacon = InitP2nBeacon]
        /\ allOk' = (allOk /\ rc = 0)
    /\ UNCHANGED <<runst, msgs, fixedI>>

\* line 217
Init_Upload ==
    /\ script = "init" /\ pc = "upload"
    /\ \E rc \in RCs :
        LET r == upload_phase2(W, rc) IN
        /\ SetWorld(r.w) /\ InitThen(r, "presigned")
        /\ last' = Step("upload_phase2", r, 0, bucket[ObjBase][1])
        /\ allOk' = (allOk /\ rc = 0)
    /\ UNCHANGED <<runst, msgs, fixedI>>

\* line 220: contribution_count + 1 grants are requested
Init_Presigned ==
    /\ script = "init" /\ pc = "presigned"
    /\ \E rc \in RCs :
        LET r == init_generate_presigned_urls(W, args.count + 1, rc) IN
        /\ SetWorld(r.w) /\ InitThen(r, "messages")
        /\ urls' = IF r.ok THEN r.ret ELSE urls
        /\ last' = Step("generate_presigned_urls", r, args.count + 1, 0)
        /\ allOk' = (allOk /\ rc = 0)
    /\ UNCHANGED <<pos, contribution_hashes, verified, failedAt, p2vLog, contribLog,
                   extractLog, msgs, fixedI>>

\* lines 221-234: the messages are written, return 0
Init_Messages ==
    /\ script = "init" /\ pc = "messages"
    /\ msgs' = init_generate_messages(urls)
    /\ pc' = "done" /\ exit' = 0
    /\ last' = [NoStep EXCEPT !.op = "generate_messages"]
    /\ UNCHANGED <<world, minioUp, runst, allOk, fixedI>>

\* ------------------------------- the step functions called by an operator
\* (the commands of scripts/trusted_setup.py, in any order, with any arguments)
Beacons == (-1)..MaxBeacon
Indices == 0..(NUM_CONTRIBUTIONS - 1)
fixedA == <<script, pc, exit, minioUp, minio_started, probes, args, calls0, snap, subst>>
ApiStep == script = "api" /\ pc = "api" /\ run <= MaxCalls /\ run' = run + 1

Api_Phase1Import ==
    /\ ApiStep
    /\ \E rc \in RCs :
        LET r == phase1_import(W, rc) IN
        /\ SetWorld(r.w)
        /\ last' = Step("phase1_import", r, 0, local["phase1"])
        /\ allOk' = (allOk /\ rc = 0)
    /\ UNCHANGED <<runst, msgs, fixedA>>

Api_Phase2Init ==
    /\ ApiStep
    /\ \E rc \in RCs, beacon_round \in Beacons :
        LET r == phase2_init(W, Exists(W, "r1cs"), beacon_round, rc) IN
        /\ SetWorld(r.w)
        /\ last' = [Step("phase2_init", r, beacon_round, local["phase2"])
                        EXCEPT !.beacon = beacon_round]
        /\ allOk' = (allOk /\ rc = 0)
    /\ UNCHANGED <<runst, msgs, fixedA>>

Api_Upload ==
    /\ ApiStep
    /\ \E rc \in RCs :
        LET r == phase2_upload(W, rc) IN
        /\ SetWorld(r.w)
        /\ last' = Step("phase2_upload", r, 0, bucket[ObjBase][1])
        /\ allOk' = (allOk /\ rc = 0)
    /\ UNCHANGED <<runst, msgs, fixedA>>

Api_Presigned ==
    /\ ApiStep
    /\ \E rc \in RCs, count \in 1..NUM_CONTRIBUTIONS :
        LET r == generate_presigned_urls(W, count, rc) IN
        /\ SetWorld(r.w)
        /\ urls' = IF r.ok THEN r.ret ELSE urls
        /\ last' = Step("generate_presigned_urls", r, count, 0)
        /\ allOk' = (allOk /\ rc = 0)
    /\ UNCHANGED <<pos, contribution_hashes, verified, failedAt, p2vLog, contribLog,
                   extractLog, msgs, fixedA>>

Api_Messages ==
    /\ ApiStep
    /\ urls # <<>>
    /\ msgs' = generate_messages(urls)
    /\ last' = [NoStep EXCEPT !.op = "generate_messages"]
    /\ UNCHANGED <<world, runst, allOk, fixedA>>

Api_Contribute ==
    /\ ApiStep
    /\ \E rc \in RCs, hashLine \in BOOLEAN, url \in Indices :
        LET r == phase2_contribute(W, url, rc, hashLine) IN
        /\ SetWorld(r.w)
        /\ contribution_hashes' = IF r.ok THEN Append(contribution_hashes, <<url, r.ret>>)
                                  ELSE contribution_hashes
        /\ contribLog' = Append(contribLog, url)
        /\ last' = Step("phase2_contribute", r, url, bucket[Obj(url)][1])
        /\ allOk' = (allOk /\ rc = 0 /\ hashLine)
    /\ UNCHANGED <<urls, pos, verified, failedAt, p2vLog, extractLog, msgs, fixedA>>

Api_Verify ==
    /\ ApiStep
    /\ \E rc \in RCs, index \in Indices :
        LET r == phase2_verify(W, index, rc) IN
        /\ SetWorld(r.w)
        /\ verified' = IF r.ok THEN verified \cup {index} ELSE verified
        /\ failedAt' = IF r.ok THEN failedAt ELSE failedAt \cup {index}
        /\ p2vLog' = Append(p2vLog, index)
        /\ last' = Step("phase2_verify", r, index,
                        IF index = 0 \/ (index - 1) \in verified THEN 1 ELSE 0)
        /\ allOk' = (allOk /\ rc = 0)
    /\ UNCHANGED <<urls, pos, contribution_hashes, contribLog, extractLog, msgs, fixedA>>

\* extract_keys with the four paths and env, with or without the two beacon keywords;
\* last.pre is 1 iff they are given, last.arg is 1 iff both rounds given are positive
Api_Extract ==
    /\ ApiStep
    /\ \E rc \in RCs, withBeacons \in BOOLEAN, b1 \in Beacons, b2 \in Beacons :
        LET kw == IF withBeacons
                  THEN [env |-> 1, phase1_beacon_round |-> b1, phase2_beacon_round |-> b2]
                  ELSE [env |-> 1]
            r == extract_keys(W, kw, rc) IN
        /\ SetWorld(r.w)
        /\ extractLog' = Append(extractLog, [index |-> -1, content |-> local["final"]])
        /\ last' = Step("extract_keys", r, IF withBeacons /\ b1 > 0 /\ b2 > 0 THEN 1 ELSE 0,
                        IF withBeacons THEN 1 ELSE 0)
        /\ allOk' = (allOk /\ rc = 0)
    /\ UNCHANGED <<urls, pos, contribution_hashes, verified, failedAt, p2vLog, contribLog,
                   msgs, fixedA>>

\* run_phase1_import and run_phase2_init of initialize_trusted_setup.py
Api_RunPhase1Import ==
    /\ ApiStep
    /\ \E rc \in RCs :
        LET r == run_phase1_import(W, rc) IN
        /\ SetWorld(r.w)
        /\ last' = Step("run_phase1_import", r, 0, local["phase1"])
        /\ allOk' = (allOk /\ rc = 0)
    /\ UNCHANGED <<runst, msgs, fixedA>>

Api_RunPhase2Init ==
    /\ ApiStep
    /\ \E rc \in RCs :
        LET r == run_phase2_init(W, Exists(W, "r1cs"), rc) IN
        /\ SetWorld(r.w)
        /\ last' = [Step("run_phase2_init", r, 0, local["phase2"])
                        EXCEPT !.beacon = InitP2nBeacon]
        /\ allOk' = (allOk /\ rc = 0)
    /\ UNCHANGED <<runst, msgs, fixedA>>

\* the world after the first k steps of a ceremony in which every command succeeded:
\* build and downloads, phase1 import, phase2 init, upload, contributions 0, 1, 2
RECURSIVE Prep(_)
Prep(k) ==
    IF k = 0
    THEN [local |-> [f \in LocalNames |-> IF f \in {"binary", "ptau", "r1cs"} THEN 1 ELSE 0],
          bucket |-> EmptyBucket, calls |-> ZeroCalls,
          overwrites |-> [o \in Objs \cup {KeyObj} |-> 0], clock |-> 1]
    ELSE LET w == Prep(k - 1) IN
         IF k = 1 THEN phase1_import(w, 0).w
         ELSE IF k = 2 THEN phase2_init(w, TRUE, 1, 0).w
         ELSE IF k = 3 THEN phase2_upload(w, 0).w
         ELSE phase2_contribute(w, k - 4, 0, TRUE).w

\* the end-to-end run: minio.env carries the credentials or not
Init ==
    /\ InitCommon
    /\ local = NoFiles /\ NoWrites
    /\ script = "e2e" /\ pc = "start"
    /\ \E c \in BOOLEAN : args = [creds |-> c, circuit |-> TRUE, count |-> NUM_CONTRIBUTIONS]
    /\ snap = [local |-> local, bucket |-> bucket]

Next ==
    \/ E2E_Setup \/ E2E_Build \/ E2E_Ptau \/ E2E_R1cs \/ E2E_ComposeUp \/ E2E_Probe
    \/ E2E_Phase1Import \/ E2E_Phase2Init \/ E2E_Upload \/ E2E_Presigned
    \/ E2E_Contribute \/ E2E_Verify \/ E2E_Curl \/ E2E_Extract
    \/ Kill \/ Restart \/ Substitute

Spec == Init /\ [][Next]_vars

\* the initialization script: the binary was built beforehand or not
InitI ==
    /\ InitCommon
    /\ \E b \in {0, 1} : local = [NoFiles EXCEPT !["binary"] = b]
    /\ NoWrites
    /\ script = "init" /\ pc = "start"
    /\ \E c \in BOOLEAN, n \in (-1)..MaxCount : args = [creds |-> TRUE, circuit |-> c, count |-> n]
    /\ snap = [local |-> local, bucket |-> bucket]

NextI ==
    \/ Init_Start \/ Init_Build \/ Init_Ptau \/ Init_Phase1Import \/ Init_Phase2Init
    \/ Init_Upload \/ Init_Presigned \/ Init_Messages
    \/ Kill \/ Restart

SpecInit == InitI /\ [][NextI]_vars

\* an operator calling the step functions at any point of a ceremony
InitA ==
    /\ InitCommon
    /\ \E k \in 0..(3 + NUM_CONTRIBUTIONS) :
        LET w == Prep(k) IN
        /\ local = w.local /\ bucket = w.bucket /\ calls = w.calls
        /\ overwrites = w.overwrites /\ clock = w.clock
    /\ script = "api" /\ pc = "api"
    /\ args = [creds |-> TRUE, circuit |-> TRUE, count |-> NUM_CONTRIBUTIONS]
    /\ snap = [local |-> local, bucket |-> bucket]

NextA ==
    \/ Api_Phase1Import \/ Api_Phase2Init \/ Api_Upload \/ Api_Presigned \/ Api_Messages
    \/ Api_Contribute \/ Api_Verify \/ Api_Extract
    \/ Api_RunPhase1Import \/ Api_RunPhase2Init

SpecApi == InitA /\ [][NextA]_vars

\* ------------------------------------------- the runs of both scripts
InitRuns == Init \/ InitI
NextRuns == Next \/ NextI
SpecRuns == InitRuns /\ [][NextRuns]_vars

\* ================================================================ claims
Range(q) == {q[k] : k \in 1..Len(q)}

\* C1: verify(i), i >= 1, called before verify(i-1) has succeeded is rejected: no state
\* has verify(i) succeeded while verify(i-1) has not.
C1_VerifyInOrder ==
    \A i \in Indices : (i >= 1 /\ i \in verified) => (i - 1) \in verified

\* C2: in an end-to-end run, once verify(k) has failed the run is over with exit status 1,
\* verify(k) is the last verify call and no index above k was ever verified, extract_keys and
\* the engine's key command were not invoked, and every index below k is still verified.
C2_HaltOnFirstBadLink ==
    \A k \in failedAt :
        /\ pc = "done" /\ exit = 1
        /\ p2vLog # <<>> /\ p2vLog[Len(p2vLog)] = k
        /\ \A j \in Range(p2vLog) : j <= k
        /\ extractLog = <<>>
        /\ calls["key"] = calls0["key"]
        /\ \A j \in 0..(k - 1) : j \in verified

\* verify(1) failed after verify(0) succeeded
C2_Witness == failedAt = {1} /\ verified = {0}

\* C3: a call of phase1_import, phase2_init, run_phase1_import or run_phase2_init whose
\* target was produced by an earlier successful call returns normally, makes no engine
\* call and leaves the artifact as it was.
C3_Idempotent ==
    /\ (last.op \in {"phase1_import", "run_phase1_import"} /\ last.pre # 0) =>
           (last.ok /\ last.engine = 0 /\ local["phase1"] = last.pre)
    /\ (last.op \in {"phase2_init", "run_phase2_init"} /\ last.pre # 0) =>
           (last.ok /\ last.engine = 0 /\ local["phase2"] = last.pre)

\* phase1_import called again after the call that invoked p1i
C3_Witness ==
    /\ last.op = "phase1_import" /\ last.pre # 0 /\ last.engine = 0
    /\ calls["p1i"] = 1 /\ run = 3

\* C4: no step invokes the engine to write an artifact (the base upload, a contribution,
\* the key pair) whose identifier already holds an artifact.
C4_AppendOnly == \A o \in Objs \cup {KeyObj} : overwrites[o] = 0

\* C5: a run started after contribution i of an earlier run completed does not attempt
\* contributions 0..i again and leaves the phase1 artifact, the phase2 base and the
\* contribution artifacts 0..i as the earlier run left them.
C5_Resume ==
    \A i \in Indices :
        (script = "e2e" /\ run > 1 /\ pc # "start" /\ snap.bucket[Obj(i)][1] # 0) =>
            /\ \A j \in 0..i : j \notin Range(contribLog)
            /\ local["phase1"] = snap.local["phase1"]
            /\ bucket[ObjBase] = snap.bucket[ObjBase]
            /\ \A j \in 0..i : bucket[Obj(j)] = snap.bucket[Obj(j)]

\* C6: the grants issued for a ceremony of N contributions are exactly N, with the
\* indices 0..N-1, each scoped to its own artifact.
C6_ExactlyNGrants ==
    urls # <<>> =>
        /\ Len(urls) = args.count
        /\ {urls[k][1] : k \in 1..Len(urls)} = 0..(args.count - 1)
        /\ \A k, m \in 1..Len(urls) : k # m => Obj(urls[k][2]) # Obj(urls[m][2])

\* C7 as stated: every call of phase2_init with a beacon round <= 0 ends in a
\* configuration error and makes no engine call, the target present or absent.
C7_NonPositiveBeaconAlwaysError ==
    (last.op = "phase2_init" /\ last.arg <= 0) =>
        (~last.ok /\ last.err = "ValueError" /\ last.engine = 0)

\* C7 amended: a call of phase2_init with a beacon round <= 0 makes no engine call; with the
\* target absent it ends in a configuration error (ValueError), with the target present it
\* returns normally and leaves the target as it was.
C7_NonPositiveBeacon ==
    (last.op = "phase2_init" /\ last.arg <= 0) =>
        /\ last.engine = 0
        /\ last.pre = 0 => (~last.ok /\ last.err = "ValueError" /\ local["phase2"] = 0)
        /\ last.pre # 0 => (last.ok /\ local["phase2"] = last.pre)

\* phase2_init called with beacon round 0 or -1 while the target is absent
C7_Witness ==
    last.op = "phase2_init" /\ last.arg <= 0 /\ last.pre = 0 /\ last.err = "ValueError"

\* C8: extract_keys called with the two beacon rounds invokes the engine's key command
\* exactly when both are positive, and otherwise fails with a configuration error.
C8_ExtractKeys ==
    (last.op = "extract_keys" /\ last.pre = 1) =>
        /\ (last.arg = 1) <=> (last.engine = 1)
        /\ (last.arg = 0) => (~last.ok /\ last.err = "ValueError")

\* C9: an end-to-end run in which every external call succeeded ends with contributions
\* 0,1,2 made, verifications 0,1,2 succeeded in that order, the key command invoked once
\* and exit status 0.
C9_EndToEnd ==
    (script = "e2e" /\ pc = "done" /\ args.creds /\ allOk) =>
        /\ contribLog = <<0, 1, 2>>
        /\ p2vLog = <<0, 1, 2>> /\ verified = {0, 1, 2}
        /\ calls["key"] - calls0["key"] = 1
        /\ exit = 0

\* C10: whenever extract_keys has been called in a run, the artifact passed is the one of
\* the highest granted index, that index and every lower one were contributed and
\* verified in the run, and the file passed exists.
C10_ExtractVerified ==
    \A n \in 1..Len(extractLog) :
        LET e == extractLog[n] IN
        /\ urls # <<>> /\ e.index = urls[Len(urls)][1]
        /\ \A k \in 1..Len(urls) : urls[k][1] <= e.index
        /\ \A j \in 0..e.index : j \in verified /\ j \in {h[1] : h \in Range(contribution_hashes)}
        /\ e.content # 0

\* extract_keys was called after the three verifications
C10_Witness == extractLog # <<>> /\ verified = {0, 1, 2} /\ extractLog[1].index = 2

\* the grants issued in the run and not yet used by a contribution attempt
Outstanding == {k \in 1..Len(urls) : urls[k][1] \notin Range(contribLog)}
\* the contribution attempts of the run are 0, 1, 2, ... in this order
Ascending == \A k \in 1..Len(contribLog) : contribLog[k] = k - 1

\* C11: in an end-to-end run the contributions are attempted in ascending index order
\* from 0, contribution i is attempted only when its predecessor (artifact i-1, the base
\* for i = 0) is stored, and at most one grant is issued and not yet consumed.
C11_OneGrantOutstanding ==
    script = "e2e" =>
        /\ Ascending
        /\ (last.op = "phase2_contribute" => last.dep # 0)
        /\ Cardinality(Outstanding) <= 1

\* C11 (amended): in an end-to-end run the contributions are attempted in ascending
\* index order from 0, contribution i is attempted only when its predecessor is stored,
\* and the grants, issued together before the first contribution (so up to
\* NUM_CONTRIBUTIONS are outstanding), are consumed one per attempt in the order issued.
C11_ContributionOrder ==
    script = "e2e" =>
        /\ Ascending
        /\ (last.op = "phase2_contribute" => last.dep # 0)
        /\ Len(contribLog) <= Len(urls)
        /\ \A k \in 1..Len(contribLog) : contribLog[k] = urls[k][1]
        /\ Cardinality(Outstanding) = Len(urls) - Len(contribLog)
        /\ Cardinality(Outstanding) <= NUM_CONTRIBUTIONS

\* contribution 1 was just attempted, after contribution 0, with one grant left
C11_Witness ==
    /\ script = "e2e" /\ last.op = "phase2_contribute" /\ last.arg = 1
    /\ contribLog = <<0, 1>> /\ Cardinality(Outstanding) = 1

\* C12: when phase2_verify(i) has just succeeded in an end-to-end run, the artifact it
\* verified is a valid transformation of its predecessor and its content hash is the one
\* recorded when contribution i was made.
C12_VerifyMatchesRecordedHash ==
    (script = "e2e" /\ last.op = "phase2_verify" /\ last.ok) =>
        /\ last.pre = 1
        /\ \E h \in Range(contribution_hashes) : h[1] = last.arg /\ h[2] = last.dep

\* the steps after which a run returns 0
FinalSteps == {"generate_messages", "extract_keys"}

\* C13: a step that fails ends the run at once with status 1; a run that has returned
\* has status 0 exactly when its last step was the final one and succeeded; a run that
\* has not returned has no status.
C13_ExitStatus ==
    /\ ~last.ok => (pc = "done" /\ exit = 1)
    /\ pc = "done" =>
        /\ exit \in {0, 1}
        /\ (exit = 0) <=> (last.ok /\ last.op \in FinalSteps)
    /\ pc # "done" => exit = -1

\* a run of the initialization script returned 0 after writing the messages
C13_Witness ==
    script = "init" /\ pc = "done" /\ exit = 0 /\ last.op = "generate_messages" /\ last.ok

\* the run was started with a missing circuit, a count below 1 or missing credentials
ConfigInvalid ==
    \/ script = "init" /\ (~args.circuit \/ args.count < 1)
    \/ script = "e2e" /\ ~args.creds

\* C14: a run whose configuration is invalid has done nothing but end with status 1: no
\* directory created, no engine command run, no object stored, no grant issued, no
\* message written.
C14_ConfigErrorFirst ==
    ConfigInvalid =>
        /\ pc \in {"start", "done", "killed"}
        /\ pc = "done" => exit = 1
        /\ local = snap.local /\ bucket = snap.bucket
        /\ calls = calls0
        /\ urls = <<>>
        /\ \A n \in DOMAIN msgs : msgs[n] = -1

\* the initialization script returned 1 for a contribution count below 1
C14_Witness ==
    script = "init" /\ args.circuit /\ args.count < 1 /\ pc = "done" /\ exit = 1

\* the phase of a step: 1 phase1 import, 2 phase2 initialization, 3 base upload, grant
\* issuance and messages, 4 contributions, 5 verifications, 6 key extraction
Rank(op) ==
    CASE op \in {"phase1_import", "run_phase1_import"} -> 1
      [] op \in {"phase2_init", "run_phase2_init"} -> 2
      [] op \in {"phase2_upload", "upload_phase2", "generate_presigned_urls",
                 "generate_messages"} -> 3
      [] op = "phase2_contribute" -> 4
      [] op = "phase2_verify" -> 5
      [] op \in {"curl", "extract_keys"} -> 6
      [] op = "kill" -> 7
      [] OTHER -> 0

\* C15: within a run no step belongs to an earlier phase than the step before it, the
\* first verification comes after all contributions and key extraction after all
\* verifications.
C15_ForwardOnly ==
    [][last'.op # "restart" =>
          /\ Rank(last'.op) >= Rank(last.op)
          /\ Rank(last'.op) = 5 => Len(contribution_hashes') = NUM_CONTRIBUTIONS
          /\ Rank(last'.op) = 6 => verified' = 0..(NUM_CONTRIBUTIONS - 1)]_vars

\* the last verification of a run succeeded, after every earlier phase
C15_Witness ==
    /\ last.op = "phase2_verify" /\ last.ok /\ last.arg = NUM_CONTRIBUTIONS - 1
    /\ contribLog = <<0, 1, 2>> /\ calls["p2u"] > calls0["p2u"]

\* C16: after generate_messages, every grant (i, url) issued has its message: file
\* msg(i+1) carries url.
C16_MessagePerGrant ==
    last.op = "generate_messages" =>
        \A k \in 1..Len(urls) : msgs[urls[k][1] + 1] = urls[k][2]

\* C17: every step that ran the engine's phase2 initialization passed it a positive
\* beacon round, and every step that ran the engine's key extraction passed it the
\* phase2 beacon round.
C17_BeaconBinding ==
    /\ (last.op \in {"phase2_init", "run_phase2_init"} /\ last.engine > 0) => last.beacon > 0
    /\ (last.op = "extract_keys" /\ last.engine > 0) => last.beacon = PHASE2_BEACON_ROUND

\* C18: start_minio makes at most ProbeLimit probes; it goes on probing only while
\* every probe failed, and returns at a successful one; after ProbeLimit failed probes
\* the run has ended with status 1 and no ceremony step.
C18_BoundedReadinessWait ==
    script = "e2e" =>
        /\ probes <= ProbeLimit
        /\ pc = "probe" => probes < ProbeLimit
        /\ last.op = "probe" =>
            /\ last.arg <= ProbeLimit
            /\ pc = "probe" => probes = last.arg
            /\ pc = "p1" <=> (last.ok /\ probes = 0)
            /\ pc = "p1" => minio_started
            /\ ~last.ok <=> (probes = ProbeLimit)
        /\ probes = ProbeLimit =>
            /\ pc = "done" /\ exit = 1
            /\ calls = calls0 /\ local["phase1"] = 0
            /\ contribLog = <<>> /\ p2vLog = <<>> /\ extractLog = <<>>

\* the readiness wait timed out
C18_Witness ==
    script = "e2e" /\ last.op = "probe" /\ ~last.ok /\ probes = ProbeLimit /\ pc = "done"

\* C19: no two contribution records of a run with different indices carry the same hash.
C19_HashesDistinct ==
    \A i, j \in 1..Len(contribution_hashes) :
        contribution_hashes[i][1] # contribution_hashes[j][1] =>
            contribution_hashes[i][2] # contribution_hashes[j][2]

\* three contributions were recorded in a run
C19_Witness ==
    script = "e2e" /\ Len(contribution_hashes) = NUM_CONTRIBUTIONS

\* the steps of an end-to-end run that come before "docker compose up" has completed
BeforeComposeUp ==
    {"none", "restart", "setup", "build_binary", "download_ptau", "generate_r1cs", "compose_up"}

\* C20: an end-to-end run that has returned after "docker compose up" completed has
\* stopped the storage service.
C20_StorageStopped ==
    (script = "e2e" /\ pc = "done" /\ last.op \notin BeforeComposeUp) => ~minioUp

\* the index has a contribution record in the run
Recorded(i) == \E h \in Range(contribution_hashes) : h[1] = i

\* C21: after a call of phase2_contribute in an end-to-end run, the call returned a hash
\* exactly when the engine exited 0 and printed a "Contribution Hash:" line, otherwise
\* it raised; the index has a record exactly when the call returned, and exactly when
\* the engine wrote its artifact to storage.
C21_RecordIffWritten ==
    (script = "e2e" /\ last.op = "phase2_contribute") =>
        /\ last.ok <=> (last.status = 0 /\ last.hash)
        /\ ~last.ok => last.err = "RuntimeError"
        /\ Recorded(last.arg) <=> last.ok
        /\ Recorded(last.arg) <=> last.wrote

\* C21 (amended): after a call of phase2_contribute in an end-to-end run, the call
\* returned a hash exactly when the engine exited 0 and printed a "Contribution Hash:"
\* line, otherwise it raised; the index has a record exactly when the call returned, and
\* only if the engine wrote its artifact; the artifact is written without a record
\* exactly when the engine exited 0 without that line.
C21_RecordOnlyIfWritten ==
    (script = "e2e" /\ last.op = "phase2_contribute") =>
        /\ last.ok <=> (last.status = 0 /\ last.hash)
        /\ ~last.ok => last.err = "RuntimeError"
        /\ Recorded(last.arg) <=> last.ok
        /\ Recorded(last.arg) => last.wrote
        /\ (last.wrote /\ ~Recorded(last.arg)) <=> (last.status = 0 /\ ~last.hash)

\* the engine stored the artifact and exited 0 without a hash line: the call raised
C21_Witness ==
    /\ script = "e2e" /\ last.op = "phase2_contribute" /\ ~last.ok
    /\ last.status = 0 /\ ~last.hash /\ last.wrote /\ ~Recorded(last.arg)

\* C22: the verifications of an end-to-end run are of the indices of the run's
\* contribution records, in the order of the records, each once; a walk that was not
\* ended by a failed verification has visited every record.
C22_WalkerVisitsRecords ==
    script = "e2e" =>
        /\ Len(p2vLog) <= Len(contribution_hashes)
        /\ \A k \in 1..Len(p2vLog) : p2vLog[k] = contribution_hashes[k][1]
        /\ \A j, k \in 1..Len(p2vLog) : j # k => p2vLog[j] # p2vLog[k]
        /\ \A k \in 1..Len(p2vLog) : Recorded(p2vLog[k]) /\ p2vLog[k] \in Range(contribLog)
        /\ (pc = "done" /\ last.op = "phase2_verify") => ~last.ok
        /\ (pc \in {"curl", "extract"} \/ last.op \in {"curl", "extract_keys"}) =>
               p2vLog = [k \in 1..Len(contribution_hashes) |-> contribution_hashes[k][1]]

\* the walk visited the three records of the run
C22_Witness ==
    script = "e2e" /\ pc = "curl" /\ p2vLog = <<0, 1, 2>> /\ Len(contribution_hashes) = 3

====
